---------------------------- MODULE Spec2Model ----------------------------
(***************************************************************************)
(* The e-commerce listing scraper of src/scraper.py: the field normalizers *)
(* (extract_price, extract_discount, extract_rating,                       *)
(* determine_availability), the pattern matcher                            *)
(* (find_element_by_patterns), the container locator                       *)
(* (find_product_containers), the record extractor (extract_product_data)  *)
(* and the listing loop (scrape_listing_page, scrape_to_dataframe).        *)
(*                                                                         *)
(* A Python str is a sequence of one-character strings, None is the empty  *)
(* tuple and a present optional value v is <<v>>.  A bs4 Tag is a record   *)
(* [tag, attrs, text, kids, malformed]: attrs is the sequence of           *)
(* (name, value) pairs in source order, text the tag's own string, kids    *)
(* its descendants in document order (leaves), malformed whether reading   *)
(* the node raises.  A float is the exact rational [num, den] it parses    *)
(* to, den a power of ten.                                                 *)
(***************************************************************************)
EXTENDS Integers, Sequences, FiniteSets, TLC

VARIABLES
    \* one EcommerceProductScraper and the call in progress on it
    pc, entry, url, soup, containers, idx, products, warned, result, df,
    clock, run, prev,
    \* one call of extract_product_data, statement by statement
    rpc, container, elems, product_data,
    \* one call of a field normalizer
    fpc, text, element, ret

listingVars == <<pc, entry, url, soup, containers, idx, products, warned, result, df, clock, run, prev>>
recordVars == <<rpc, container, elems, product_data>>
normVars == <<fpc, text, element, ret>>
vars == <<listingVars, recordVars, normVars>>

-----------------------------------------------------------------------------
(* Bounds of the model. *)

\* longest text handed to extract_discount
MaxTextLen == 4
\* most phrase fragments in an availability text
MaxFrags == 2
\* most descendants of a product container
MaxKids == 3
\* most top-level nodes of a fetched document
MaxNodes == 2
\* latest instant of the clock
MaxClock == 1

-----------------------------------------------------------------------------
(* Python values. *)

None == <<>>
Some(v) == <<v>>
IsSome(o) == o # <<>>
Val(o) == o[1]

DigitChars == <<"0","1","2","3","4","5","6","7","8","9">>
UpperChars == <<"A","B","C","D","E","F","G","H","I","J","K","L","M","N","O","P","Q","R","S","T","U","V","W","X","Y","Z">>
LowerChars == <<"a","b","c","d","e","f","g","h","i","j","k","l","m","n","o","p","q","r","s","t","u","v","w","x","y","z">>

Range(s) == {s[i] : i \in 1..Len(s)}
Digits == Range(DigitChars)
IsDigit(c) == c \in Digits
IsSpace(c) == c = " "
IsComma(c) == c = ","
IsDot(c) == c = "."
DigitValue == [c \in Digits |-> (CHOOSE i \in 1..10 : DigitChars[i] = c) - 1]
DigitVal(c) == DigitValue[c]

\* str.lower, one character
LowerOf == [c \in Range(UpperChars) |-> LowerChars[CHOOSE i \in 1..Len(UpperChars) : UpperChars[i] = c]]
LowerChar(c) == IF c \in DOMAIN LowerOf THEN LowerOf[c] ELSE c
lower(s) == [i \in 1..Len(s) |-> LowerChar(s[i])]

RECURSIVE lstrip(_)
lstrip(s) == IF s # <<>> /\ IsSpace(Head(s)) THEN lstrip(Tail(s)) ELSE s
\* s cut to its first n characters, less the spaces it then ends with
RECURSIVE rstripTo(_, _)
rstripTo(s, n) == IF n > 0 /\ IsSpace(s[n]) THEN rstripTo(s, n - 1) ELSE SubSeq(s, 1, n)
rstrip(s) == rstripTo(s, Len(s))
\* str.strip
strip(s) == rstrip(lstrip(s))

\* the `in` operator on strings: sub occurs in s
Contains(s, sub) == \E i \in 1..(Len(s) - Len(sub) + 1) : SubSeq(s, i, i + Len(sub) - 1) = sub

RECURSIVE Pow10(_)
Pow10(n) == IF n = 0 THEN 1 ELSE 10 * Pow10(n - 1)
\* the number the first n digits of ds write
RECURSIVE ToIntTo(_, _)
ToIntTo(ds, n) == IF n = 0 THEN 0 ELSE 10 * ToIntTo(ds, n - 1) + DigitVal(ds[n])
ToInt(ds) == ToIntTo(ds, Len(ds))
RECURSIVE IntToStr(_)
IntToStr(n) == IF n < 10 THEN <<DigitChars[n + 1]>> ELSE IntToStr(n \div 10) \o <<DigitChars[(n % 10) + 1]>>

\* float(s) for s of digits and dots: whether it raises ValueError, and its value
FloatRaises(s) == Len(SelectSeq(s, IsDot)) > 1 \/ SelectSeq(s, IsDigit) = <<>>
float(s) ==
    LET dot == CHOOSE i \in 1..Len(s) : s[i] = "."
    IN  [num |-> ToInt(SelectSeq(s, IsDigit)),
         den |-> Pow10(IF Len(SelectSeq(s, IsDot)) = 1 THEN Len(s) - dot ELSE 0)]

\* truth value of a float or None, as `and` tests it
Truthy(o) == IsSome(o) /\ Val(o).num # 0
\* a > b on floats
Greater(a, b) == a.num * b.den > b.num * a.den

-----------------------------------------------------------------------------
(* Field normalizers. *)

IsPriceChar(c) == IsDigit(c) \/ IsDot(c) \/ IsComma(c)
NotComma(c) == ~IsComma(c)

extract_price(t) ==
    IF t = <<>> THEN None
    ELSE LET cleaned == SelectSeq(SelectSeq(strip(t), IsPriceChar), NotComma)
         IN  IF cleaned = <<>> THEN None
             ELSE IF FloatRaises(cleaned) THEN None ELSE Some(float(cleaned))

\* end (exclusive) of the run of digits, of digits and commas, of spaces, from i
RECURSIVE DigitRunEnd(_, _)
DigitRunEnd(s, i) == IF i <= Len(s) /\ IsDigit(s[i]) THEN DigitRunEnd(s, i + 1) ELSE i
RECURSIVE AmountRunEnd(_, _)
AmountRunEnd(s, i) == IF i <= Len(s) /\ (IsDigit(s[i]) \/ IsComma(s[i])) THEN AmountRunEnd(s, i + 1) ELSE i
RECURSIVE SpaceRunEnd(_, _)
SpaceRunEnd(s, i) == IF i <= Len(s) /\ IsSpace(s[i]) THEN SpaceRunEnd(s, i + 1) ELSE i
\* end of the optional group (?:\.\d+)? tried at j
FractionEnd(s, j) == IF j + 1 <= Len(s) /\ IsDot(s[j]) /\ IsDigit(s[j + 1]) THEN DigitRunEnd(s, j + 1) ELSE j

\* r"(\d+(?:\.\d+)?)\s*%" matched at i: group 1 ends (exclusive) at PercentGroupEnd
PercentGroupEnd(s, i) == FractionEnd(s, DigitRunEnd(s, i))
PercentAt(s, i) ==
    /\ IsDigit(s[i])
    /\ LET p == SpaceRunEnd(s, PercentGroupEnd(s, i)) IN p <= Len(s) /\ s[p] = "%"
\* re.search: the leftmost position the pattern matches at, 0 when none
PercentSearch(s) == IF \E i \in 1..Len(s) : PercentAt(s, i) THEN CHOOSE i \in 1..Len(s) : PercentAt(s, i) /\ \A j \in 1..(i - 1) : ~PercentAt(s, j) ELSE 0

\* r"[\d,]+(?:\.\d+)?"
AmountAt(s, i) == IsDigit(s[i]) \/ IsComma(s[i])
AmountSearch(s) == IF \E i \in 1..Len(s) : AmountAt(s, i) THEN CHOOSE i \in 1..Len(s) : AmountAt(s, i) /\ \A j \in 1..(i - 1) : ~AmountAt(s, j) ELSE 0
AmountGroup(s, i) == SubSeq(s, i, FractionEnd(s, AmountRunEnd(s, i)) - 1)

extract_discount(t) ==
    IF t = <<>> THEN None
    ELSE LET percent_match == PercentSearch(t)
             amount_match == AmountSearch(t)
         IN  IF percent_match # 0
             THEN Some(SubSeq(t, percent_match, PercentGroupEnd(t, percent_match) - 1) \o <<"%">>)
             ELSE IF amount_match # 0
             THEN Some(<<"₹">> \o SelectSeq(AmountGroup(t, amount_match), NotComma))
             ELSE IF strip(t) # <<>> THEN Some(strip(t)) ELSE None

\* r"(\d(?:\.\d)?)"
RatingSearch(s) == IF \E i \in 1..Len(s) : IsDigit(s[i]) THEN CHOOSE i \in 1..Len(s) : IsDigit(s[i]) /\ \A j \in 1..(i - 1) : ~IsDigit(s[j]) ELSE 0
RatingGroup(s, i) == IF i + 2 <= Len(s) /\ IsDot(s[i + 1]) /\ IsDigit(s[i + 2]) THEN SubSeq(s, i, i + 2) ELSE SubSeq(s, i, i)

extract_rating(t) ==
    IF t = <<>> THEN None
    ELSE LET match == RatingSearch(t)
         IN  IF match # 0
             THEN LET rating == float(RatingGroup(t, match))
                  IN  IF 0 <= rating.num /\ rating.num <= 5 * rating.den THEN Some(rating) ELSE None
             ELSE None

\* the two phrase lists of determine_availability, in list order
out_of_stock_patterns ==
    << <<"o","u","t"," ","o","f"," ","s","t","o","c","k">>, <<"s","o","l","d"," ","o","u","t">>, <<"u","n","a","v","a","i","l","a","b","l","e">>, <<"n","o","t"," ","a","v","a","i","l","a","b","l","e">>,
       <<"c","u","r","r","e","n","t","l","y"," ","u","n","a","v","a","i","l","a","b","l","e">>, <<"o","u","t","-","o","f","-","s","t","o","c","k">>, <<"s","o","l","d","o","u","t">> >>
in_stock_patterns ==
    << <<"i","n"," ","s","t","o","c","k">>, <<"a","v","a","i","l","a","b","l","e">>, <<"a","d","d"," ","t","o"," ","c","a","r","t">>, <<"b","u","y"," ","n","o","w">>,
       <<"i","n","-","s","t","o","c","k">>, <<"i","n","s","t","o","c","k">> >>

\* str(element): the markup of a tag
RECURSIVE RenderAttrs(_)
RenderAttrs(attrs) ==
    IF attrs = <<>> THEN <<>>
    ELSE <<" ">> \o Head(attrs)[1] \o <<"=","\"">> \o Head(attrs)[2] \o <<"\"">> \o RenderAttrs(Tail(attrs))
RECURSIVE RenderAll(_)
Render(e) == <<"<">> \o e.tag \o RenderAttrs(e.attrs) \o <<">">> \o e.text \o RenderAll(e.kids) \o <<"<","/">> \o e.tag \o <<">">>
RenderAll(es) == IF es = <<>> THEN <<>> ELSE Render(Head(es)) \o RenderAll(Tail(es))

\* the text searched: the lowercase text, then a space and the lowercase markup
SearchText(el, t) ==
    LET search_text == IF t # <<>> THEN lower(t) ELSE <<>>
    IN  IF IsSome(el) THEN search_text \o <<" ">> \o lower(Render(Val(el))) ELSE search_text

\* for pattern in patterns: if pattern in search_text: return ...
RECURSIVE AnyPatternIn(_, _, _)
AnyPatternIn(patterns, search_text, k) ==
    IF k > Len(patterns) THEN FALSE
    ELSE IF Contains(search_text, patterns[k]) THEN TRUE
    ELSE AnyPatternIn(patterns, search_text, k + 1)

\* determine_availability with the in-stock list tested first
determine_availability_InStockFirst(el, t) ==
    IF t = <<>> /\ ~IsSome(el) THEN "Unknown"
    ELSE LET search_text == SearchText(el, t)
         IN  IF AnyPatternIn(in_stock_patterns, search_text, 1) THEN "In Stock"
             ELSE IF AnyPatternIn(out_of_stock_patterns, search_text, 1) THEN "Out of Stock"
             ELSE "Unknown"

determine_availability(el, t) ==
    IF t = <<>> /\ ~IsSome(el) THEN "Unknown"
    ELSE LET search_text == SearchText(el, t)
         IN  IF AnyPatternIn(out_of_stock_patterns, search_text, 1) THEN "Out of Stock"
             ELSE IF AnyPatternIn(in_stock_patterns, search_text, 1) THEN "In Stock"
             ELSE "Unknown"

-----------------------------------------------------------------------------
(* Tags and the pattern matcher. *)

Tag(tag, attrs, txt, kids, malformed) ==
    [tag |-> tag, attrs |-> attrs, text |-> txt, kids |-> kids, malformed |-> malformed]
Leaf(tag, attrs, txt) == Tag(tag, attrs, txt, <<>>, FALSE)

\* Tag.get_text(strip=True): every string stripped, joined without separator
RECURSIVE get_text_all(_)
get_text(e) == strip(e.text) \o get_text_all(e.kids)
get_text_all(es) == IF es = <<>> THEN <<>> ELSE get_text(Head(es)) \o get_text_all(Tail(es))

safe_get_text(el) == IF el = None THEN <<>> ELSE get_text(Val(el))

\* a search pattern: tag is None for any tag; kind is "any" (attrs {}), "regex"
\* (re.compile(alternatives, re.I) on the attribute), "present" (True) or
\* "equals" (a string); alts are the literal alternatives, lowercase
Pattern(tag, kind, name, alts) == [tag |-> tag, kind |-> kind, name |-> name, alts |-> alts]

HasAttr(e, name) == \E i \in 1..Len(e.attrs) : e.attrs[i][1] = name
Attr(e, name) == e.attrs[CHOOSE i \in 1..Len(e.attrs) : e.attrs[i][1] = name /\ \A j \in 1..(i - 1) : e.attrs[j][1] # name][2]

\* whether bs4 matches tag e against a pattern
Matches(e, p) ==
    /\ p.tag = None \/ Val(p.tag) = e.tag
    /\ CASE p.kind = "any" -> TRUE
         [] p.kind = "present" -> HasAttr(e, p.name)
         [] p.kind = "equals" -> HasAttr(e, p.name) /\ Attr(e, p.name) \in p.alts
         [] p.kind = "regex" -> HasAttr(e, p.name) /\ LET value == lower(Attr(e, p.name)) IN \E a \in p.alts : Contains(value, a)

\* container.find(tag, attrs=...): the first matching descendant in document
\* order, as its position among the descendants; 0 is None
find(c, p) ==
    IF \E i \in 1..Len(c.kids) : Matches(c.kids[i], p)
    THEN CHOOSE i \in 1..Len(c.kids) : Matches(c.kids[i], p) /\ \A j \in 1..(i - 1) : ~Matches(c.kids[j], p)
    ELSE 0

\* `if element:` taken for a test of the tag's text
ElementTruthy_HasText(c, i) == i # 0 /\ get_text(c.kids[i]) # <<>>

\* `if element:` a Tag is true whatever it holds, None is false
ElementTruthy(c, i) == i # 0

\* the loop of find_element_by_patterns from pattern k on: the element
\* returned and how many patterns were evaluated
RECURSIVE FindFrom(_, _, _)
FindFrom(c, tag_patterns, k) ==
    IF k > Len(tag_patterns) THEN [element |-> 0, evaluated |-> Len(tag_patterns)]
    ELSE IF ElementTruthy(c, find(c, tag_patterns[k])) THEN [element |-> find(c, tag_patterns[k]), evaluated |-> k]
    ELSE FindFrom(c, tag_patterns, k + 1)

find_element_by_patterns(c, tag_patterns) == FindFrom(c, tag_patterns, 1)

\* the Tag at position i of c's descendants, None for 0
Node(c, i) == IF i = 0 THEN None ELSE Some(c.kids[i])

-----------------------------------------------------------------------------
(* The record extractor. *)

S_class == <<"c","l","a","s","s">>
S_span == <<"s","p","a","n">>
S_div == <<"d","i","v">>

ClassRe(tag, alts) == Pattern(Some(tag), "regex", S_class, alts)
AnyTag(tag) == Pattern(Some(tag), "any", <<>>, {})

NameRe == {<<"t","i","t","l","e">>, <<"n","a","m","e">>, <<"p","r","o","d","u","c","t">>}
PriceRe == {<<"p","r","i","c","e">>, <<"c","o","s","t">>, <<"s","a","l","e">>, <<"f","i","n","a","l">>}
MrpRe == {<<"m","r","p">>, <<"o","r","i","g","i","n","a","l">>, <<"s","t","r","i","k","e">>, <<"w","a","s">>, <<"o","l","d">>}
DiscountRe == {<<"d","i","s","c","o","u","n","t">>, <<"o","f","f">>, <<"s","a","v","e">>, <<"p","e","r","c","e","n","t">>}
RatingRe == {<<"r","a","t","i","n","g">>, <<"s","t","a","r">>, <<"r","e","v","i","e","w">>}
AvailabilityRe == {<<"s","t","o","c","k">>, <<"a","v","a","i","l">>, <<"i","n","v","e","n","t","o","r","y">>}

name_patterns ==
    << AnyTag(<<"h","2">>), AnyTag(<<"h","3">>), ClassRe(<<"a">>, NameRe), ClassRe(S_span, NameRe), ClassRe(S_div, NameRe) >>
current_price_patterns ==
    << ClassRe(S_span, PriceRe), ClassRe(S_div, PriceRe), Pattern(None, "present", <<"d","a","t","a","-","p","r","i","c","e">>, {}) >>
mrp_patterns ==
    << ClassRe(S_span, MrpRe), AnyTag(<<"d","e","l">>), AnyTag(<<"s">>), AnyTag(<<"s","t","r","i","k","e">>) >>
discount_patterns ==
    << ClassRe(S_span, DiscountRe), ClassRe(S_div, DiscountRe) >>
rating_patterns ==
    << ClassRe(S_span, RatingRe), ClassRe(S_div, RatingRe), Pattern(None, "present", <<"d","a","t","a","-","r","a","t","i","n","g">>, {}) >>
availability_patterns ==
    << ClassRe(S_span, AvailabilityRe), ClassRe(S_div, AvailabilityRe) >>

Fields == {"name", "price", "mrp", "discount", "rating", "availability"}
PatternsOf(f) ==
    CASE f = "name" -> name_patterns
      [] f = "price" -> current_price_patterns
      [] f = "mrp" -> mrp_patterns
      [] f = "discount" -> discount_patterns
      [] f = "rating" -> rating_patterns
      [] f = "availability" -> availability_patterns

\* the six find_element_by_patterns calls: field -> the element located (its
\* position) and the number of patterns evaluated for it
FindElements(c) == [f \in Fields |-> find_element_by_patterns(c, PatternsOf(f))]

\* `safe_get_text(name_elem) or None`
OrNone(s) == IF s = <<>> THEN None ELSE Some(s)

\* the dictionary extract_product_data builds from the located elements
BuildProductData(c, el, now) ==
    [ product_name |-> OrNone(safe_get_text(Node(c, el["name"].element))),
      current_price |-> extract_price(safe_get_text(Node(c, el["price"].element))),
      mrp |-> extract_price(safe_get_text(Node(c, el["mrp"].element))),
      discount |-> extract_discount(safe_get_text(Node(c, el["discount"].element))),
      rating |-> extract_rating(safe_get_text(Node(c, el["rating"].element))),
      availability |-> determine_availability(Node(c, el["availability"].element), safe_get_text(Node(c, el["availability"].element))),
      scrape_timestamp_utc |-> now ]

\* (mrp - current_price) / mrp * 100 in tenths of a percent, rounded to the
\* nearest tenth, a tie to the even one, as "{:.1f}" rounds.  The quotient is
\* exact here; the binary float of the code rounds alike unless the exact
\* value lies halfway between two tenths and is no multiple of 1/16, which no
\* pair of prices of this model gives.
DiscountTenths(mrp, cp) ==
    LET n == 1000 * (mrp.num * cp.den - cp.num * mrp.den)
        d == mrp.num * cp.den
        q == n \div d
        r == n % d
    IN  IF 2 * r > d THEN q + 1
        ELSE IF 2 * r = d THEN q + (q % 2)
        ELSE q
FormatPct(tenths) == IntToStr(tenths \div 10) \o <<".">> \o IntToStr(tenths % 10) \o <<"%">>

\* the condition without its `discount is None`
ShouldDerive_AnyDiscount(pd) ==
    /\ Truthy(pd.mrp)
    /\ Truthy(pd.current_price)
    /\ Greater(Val(pd.mrp), Val(pd.current_price))

\* the condition of the discount calculation
ShouldDerive(pd) ==
    /\ pd.discount = None
    /\ Truthy(pd.mrp)
    /\ Truthy(pd.current_price)
    /\ Greater(Val(pd.mrp), Val(pd.current_price))

\* the discount calculation of extract_product_data
DeriveDiscount(pd) ==
    IF ShouldDerive(pd)
    THEN [pd EXCEPT !.discount = Some(FormatPct(DiscountTenths(Val(pd.mrp), Val(pd.current_price))))]
    ELSE pd

\* whether reading the container raises
Raises(c) == c.malformed

extract_product_data(c, now) == DeriveDiscount(BuildProductData(c, FindElements(c), now))

-----------------------------------------------------------------------------
(* The container locator and the listing loop. *)

container_patterns ==
    << Pattern(None, "regex", S_class, {<<"p","r","o","d","u","c","t","c","a","r","d">>, <<"p","r","o","d","u","c","t","-","c","a","r","d">>, <<"p","r","o","d","u","c","t","_","c","a","r","d">>}),
       Pattern(None, "regex", S_class, {<<"p","r","o","d","u","c","t","i","t","e","m">>, <<"p","r","o","d","u","c","t","-","i","t","e","m">>, <<"p","r","o","d","u","c","t","_","i","t","e","m">>}),
       Pattern(None, "regex", S_class, {<<"p","r","o","d","u","c","t","t","i","l","e">>, <<"p","r","o","d","u","c","t","-","t","i","l","e">>, <<"p","r","o","d","u","c","t","_","t","i","l","e">>}),
       Pattern(None, "regex", S_class, {<<"s","e","a","r","c","h","r","e","s","u","l","t">>, <<"s","e","a","r","c","h","-","r","e","s","u","l","t">>, <<"s","e","a","r","c","h","_","r","e","s","u","l","t">>}),
       Pattern(None, "equals", <<"d","a","t","a","-","c","o","m","p","o","n","e","n","t","-","t","y","p","e">>, {<<"s","-","s","e","a","r","c","h","-","r","e","s","u","l","t">>}),
       Pattern(None, "regex", S_class, {<<"_","1","a","t","v","b","e">>}) >>

\* every tag of the document, in document order
RECURSIVE Descendants(_)
Descendants(nodes) ==
    IF nodes = <<>> THEN <<>>
    ELSE <<Head(nodes)>> \o Descendants(Head(nodes).kids) \o Descendants(Tail(nodes))

\* soup.find_all(attrs=...)
find_all(nodes, p) ==
    LET Hit(e) == Matches(e, p)
    IN  SelectSeq(Descendants(nodes), Hit)

\* the loop of find_product_containers from pattern k on, containers being
\* what is collected so far: the list returned and the patterns evaluated
RECURSIVE ContainersFrom(_, _, _)
ContainersFrom(nodes, k, acc) ==
    IF k > Len(container_patterns) THEN [containers |-> acc, evaluated |-> Len(container_patterns)]
    ELSE LET found == find_all(nodes, container_patterns[k])
         IN  IF found # <<>>
             THEN [containers |-> acc \o found, evaluated |-> k]
             ELSE ContainersFrom(nodes, k + 1, acc)

\* the loop without its break: every pattern is evaluated and adds its matches
RECURSIVE AllMatchesFrom(_, _)
AllMatchesFrom(nodes, k) ==
    IF k > Len(container_patterns) THEN <<>>
    ELSE find_all(nodes, container_patterns[k]) \o AllMatchesFrom(nodes, k + 1)
find_product_containers_NoBreak(nodes) ==
    [containers |-> AllMatchesFrom(nodes, 1), evaluated |-> Len(container_patterns)]

find_product_containers(nodes) == ContainersFrom(nodes, 1, <<>>)

\* the list of an earlier call kept
NewProducts_Kept(old) == old

\* `products = []` at the start of the loop
NewProducts(old) == <<>>

\* every record kept
HasName_Always(pd) == TRUE

\* `if product_data["product_name"]:`
HasName(pd) == IsSome(pd.product_name)

\* no handler around the extraction
HandlerCatches_Nothing == FALSE

\* `except Exception` catches what extract_product_data raises
HandlerCatches == TRUE

\* product_data["source_url"] = url
WithSource(pd, u) == ("source_url" :> u) @@ pd

\* the empty DataFrame without its last column
EmptyColumns_NoSource ==
    << "product_name", "current_price", "mrp", "discount",
       "rating", "availability", "scrape_timestamp_utc" >>

\* the columns of the empty DataFrame, and column_order
EmptyColumns ==
    << "product_name", "current_price", "mrp", "discount",
       "rating", "availability", "scrape_timestamp_utc", "source_url" >>
column_order ==
    << "product_name", "current_price", "mrp", "discount",
       "rating", "availability", "scrape_timestamp_utc", "source_url" >>

NaN == "NaN"
\* pd.DataFrame(products).reindex(columns=cols)
Reindex(rows, cols) ==
    [ columns |-> cols,
      rows |-> [i \in 1..Len(rows) |-> [c \in Range(cols) |-> IF c \in DOMAIN rows[i] THEN rows[i][c] ELSE NaN]] ]

\* what scrape_to_dataframe returns for the products of scrape_listing_page
DataFrameOf(prods) ==
    IF prods = <<>> THEN [columns |-> EmptyColumns, rows |-> <<>>]
    ELSE Reindex(prods, column_order)

-----------------------------------------------------------------------------
(* Inputs. *)

\* every string over alphabet of length at most n
Strings(alphabet, n) == UNION {[1..k -> alphabet] : k \in 0..n}
\* every sequence over S of length at most n
SeqsUpTo(S, n) == UNION {[1..k -> S] : k \in 0..n}

DiscountAlphabet == {"2", "0", ",", ".", "%", " ", "x", "₹"}
DiscountTexts ==
    Strings(DiscountAlphabet, MaxTextLen)
        \cup {<<"S","a","v","e"," ","2","0","%"," ","o","f","f"," ","₹","2",",","0","0","0">>, <<"2","0","%"," ","o","f","f">>, <<"S","a","v","e"," ","₹","2",",","0","0","0">>, <<"F","l","a","t"," ","1","2",".","5"," ","%"," ","o","f","f">>, <<"H","u","r","r","y",","," ","s","a","l","e">>}

\* the pieces availability texts are put together from
Fragments ==
    << <<"I","n"," ","S","t","o","c","k">>, <<"O","U","T"," ","O","F"," ","S","T","O","C","K">>, <<"u","n">>, <<"a","v","a","i","l","a","b","l","e">>, <<"n","o","t"," ">>, <<"s","o","l","d">>, <<"o","u","t">>, <<" ">>, <<"B","u","y"," ","N","o","w">> >>
RECURSIVE Concat(_)
Concat(ss) == IF ss = <<>> THEN <<>> ELSE Head(ss) \o Concat(Tail(ss))
AvailabilityTexts == {Concat(ss) : ss \in SeqsUpTo(Range(Fragments), MaxFrags)}
AvailabilityElements ==
    { None,
      Some(Leaf(S_span, <<<<S_class, <<"s","t","o","c","k","-","s","t","a","t","u","s">>>>>>, <<>>)),
      Some(Leaf(S_div, <<<<S_class, <<"I","n","-","S","t","o","c","k">>>>>>, <<>>)),
      Some(Leaf(S_span, <<<<S_class, <<"i","n","v","e","n","t","o","r","y">>>>, <<<<"t","i","t","l","e">>, <<"C","u","r","r","e","n","t","l","y"," ","U","n","a","v","a","i","l","a","b","l","e">>>>>>, <<>>)) }

\* the tags found inside product containers
Elements ==
    { Leaf(<<"h","2">>, <<>>, <<>>),
      Leaf(<<"a">>, <<<<S_class, <<"P","r","o","d","u","c","t","-","T","i","t","l","e">>>>>>, <<"P","2">>),
      Leaf(S_span, <<<<S_class, <<"p","r","i","c","e">>>>>>, <<"8","0","0">>),
      Leaf(S_span, <<<<S_class, <<"s","a","l","e","-","p","r","i","c","e">>>>>>, <<"0">>),
      Leaf(<<"d","e","l">>, <<>>, <<"₹","1",",","0","0","0">>),
      Leaf(S_span, <<<<S_class, <<"m","r","p">>>>>>, <<"1","6">>),
      Leaf(S_div, <<<<S_class, <<"f","i","n","a","l">>>>>>, <<" ","1","5"," ">>),
      Leaf(S_span, <<<<S_class, <<"d","i","s","c","o","u","n","t">>>>>>, <<"1","5","%"," ","o","f","f">>),
      Leaf(S_div, <<<<S_class, <<"s","a","v","e">>>>>>, <<" ">>),
      Leaf(<<"b">>, <<<<S_class, <<"s","t","o","c","k"," ","r","a","t","i","n","g">>>>, <<<<"d","a","t","a","-","p","r","i","c","e">>, <<"9">>>>>>, <<"4",".","5"," ","S","o","l","d"," ","o","u","t">>) }

Card(cls, kids) == Tag(S_div, <<<<S_class, cls>>>>, <<>>, kids, FALSE)
RecordContainers == {Card(<<"p","r","o","d","u","c","t","-","c","a","r","d">>, kids) : kids \in SeqsUpTo(Elements, MaxKids)}

H2(name) == Leaf(<<"h","2">>, <<>>, name)
\* the top-level nodes of fetched documents
TopNodes ==
    { Card(<<"p","r","o","d","u","c","t","-","c","a","r","d">>, <<H2(<<"P","1">>), Leaf(S_span, <<<<S_class, <<"p","r","i","c","e">>>>>>, <<"8","0","0">>), Leaf(<<"d","e","l">>, <<>>, <<"₹","1",",","0","0","0">>)>>),
      Card(<<"P","r","o","d","u","c","t","_","I","t","e","m"," ","_","1","A","t","V","b","E">>, <<Leaf(S_span, <<<<S_class, <<"p","r","i","c","e">>>>>>, <<"8","0","0">>)>>),
      Tag(<<"l","i">>, <<<<S_class, <<"p","r","o","d","u","c","t","-","i","t","e","m"," ","s","e","a","r","c","h","-","r","e","s","u","l","t">>>>, <<<<"d","a","t","a","-","c","o","m","p","o","n","e","n","t","-","t","y","p","e">>, <<"s","-","s","e","a","r","c","h","-","r","e","s","u","l","t">>>>>>, <<>>,
          <<Leaf(<<"a">>, <<<<S_class, <<"t","i","t","l","e">>>>>>, <<"P","2">>)>>, FALSE),
      Tag(S_div, <<<<S_class, <<"p","r","o","d","u","c","t","-","c","a","r","d">>>>>>, <<>>, <<H2(<<"P","3">>)>>, TRUE),
      Card(<<"r","o","w">>, <<Leaf(<<"h","3">>, <<<<S_class, <<"P","r","o","d","u","c","t","T","i","l","e","-","t","i","t","l","e">>>>>>, <<"P","4">>)>>),
      Leaf(S_div, <<<<S_class, <<"b","a","n","n","e","r">>>>>>, <<"S","a","l","e">>) }
Documents == SeqsUpTo(TopNodes, MaxNodes)

Urls == {"https://shop.example/phones", "https://shop.example/tablets"}
EntryPoints == {"scrape_listing_page", "scrape_to_dataframe"}

-----------------------------------------------------------------------------
(* The state after construction, and the idle values of each part. *)

ListingIdle ==
    /\ pc = "idle" /\ entry = "" /\ url = "" /\ soup = None /\ containers = <<>>
    /\ idx = 0 /\ products = <<>> /\ warned = <<>> /\ result = <<>> /\ df = None
    /\ clock = 0 /\ run = 0 /\ prev = None
RecordIdle == rpc = "idle" /\ container = None /\ elems = None /\ product_data = None
NormIdle == fpc = "idle" /\ text = <<>> /\ element = None /\ ret = None

Init == ListingIdle /\ RecordIdle /\ NormIdle

-----------------------------------------------------------------------------
(* scrape_listing_page and scrape_to_dataframe. *)

\* a call of one of the two entry points starts
Call(u, e) ==
    /\ pc = "idle"
    /\ pc' = "fetch" /\ url' = u /\ entry' = e /\ run' = 1
    /\ UNCHANGED <<soup, containers, idx, products, warned, result, df, clock, prev>>
    /\ UNCHANGED <<recordVars, normVars>>

\* the documents the fetch can yield: any, and on a second call the same tree
Fetchable == IF run = 2 THEN {Val(Val(prev).soup)} ELSE Documents

\* fetch_page yields a parsed document; the containers are located
FetchOk(doc) ==
    /\ pc = "fetch"
    /\ soup' = Some(doc)
    /\ containers' = find_product_containers(doc).containers
    /\ products' = NewProducts(products)
    /\ idx' = 1
    /\ warned' = <<>>
    /\ pc' = "loop"
    /\ UNCHANGED <<entry, url, result, df, clock, run, prev>>
    /\ UNCHANGED <<recordVars, normVars>>

\* fetch_page logs a timeout, an HTTP error or a request failure and yields
\* None; scrape_listing_page returns []
FetchFail(kind) ==
    /\ pc = "fetch"
    /\ kind \in {"Timeout", "HTTPError", "RequestException"}
    /\ soup' = None
    /\ containers' = <<>>
    /\ idx' = 0
    /\ result' = <<>>
    /\ pc' = "returned"
    /\ UNCHANGED <<entry, url, products, warned, df, clock, run, prev>>
    /\ UNCHANGED <<recordVars, normVars>>

\* one iteration of the loop over the containers
ExtractStep ==
    /\ pc = "loop"
    /\ idx <= Len(containers)
    /\ LET c == containers[idx]
       IN  IF Raises(c)
           THEN IF HandlerCatches
                THEN /\ warned' = Append(warned, idx)
                     /\ idx' = idx + 1
                     /\ UNCHANGED <<pc, products>>
                ELSE /\ pc' = "raised"
                     /\ UNCHANGED <<warned, idx, products>>
           ELSE LET pd == extract_product_data(c, clock)
                IN  /\ products' = IF HasName(pd) THEN Append(products, WithSource(pd, url)) ELSE products
                    /\ idx' = idx + 1
                    /\ UNCHANGED <<pc, warned>>
    /\ UNCHANGED <<entry, url, soup, containers, result, df, clock, run, prev>>
    /\ UNCHANGED <<recordVars, normVars>>

\* the loop is over: scrape_listing_page returns products
Return ==
    /\ pc = "loop"
    /\ idx > Len(containers)
    /\ result' = products
    /\ pc' = "returned"
    /\ UNCHANGED <<entry, url, soup, containers, idx, products, warned, df, clock, run, prev>>
    /\ UNCHANGED <<recordVars, normVars>>

\* scrape_to_dataframe builds the DataFrame from what scrape_listing_page returned
BuildDataFrame ==
    /\ pc = "returned"
    /\ entry = "scrape_to_dataframe"
    /\ df' = Some(DataFrameOf(result))
    /\ pc' = "dataframe"
    /\ UNCHANGED <<entry, url, soup, containers, idx, products, warned, result, clock, run, prev>>
    /\ UNCHANGED <<recordVars, normVars>>

\* the call is over
Finished ==
    \/ pc = "returned" /\ entry = "scrape_listing_page"
    \/ pc = "dataframe"

\* the same entry point is called again on the same scraper with the same
\* url; what the first call fetched and returned is remembered for comparison
CallAgain ==
    /\ Finished
    /\ run = 1
    /\ soup # None
    /\ prev' = Some([soup |-> soup, url |-> url, result |-> result, df |-> df])
    /\ run' = 2
    /\ pc' = "fetch"
    /\ UNCHANGED <<entry, url, soup, containers, idx, products, warned, result, df, clock>>
    /\ UNCHANGED <<recordVars, normVars>>

\* time passes
Tick ==
    /\ pc \in {"fetch", "loop"}
    /\ clock < MaxClock
    /\ clock' = clock + 1
    /\ UNCHANGED <<pc, entry, url, soup, containers, idx, products, warned, result, df, run, prev>>
    /\ UNCHANGED <<recordVars, normVars>>

Next ==
    \/ \E u \in Urls, e \in EntryPoints : Call(u, e)
    \/ \E doc \in Fetchable : FetchOk(doc)
    \/ \E kind \in {"Timeout", "HTTPError", "RequestException"} : FetchFail(kind)
    \/ ExtractStep
    \/ Return
    \/ BuildDataFrame
    \/ CallAgain
    \/ Tick

Spec == Init /\ [][Next]_vars

-----------------------------------------------------------------------------
(* One call of extract_product_data, statement by statement. *)

InitRecord ==
    /\ ListingIdle /\ NormIdle
    /\ rpc = "start" /\ container \in RecordContainers /\ elems = None /\ product_data = None

\* the six find_element_by_patterns calls
LocateElements ==
    /\ rpc = "start"
    /\ elems' = FindElements(container)
    /\ rpc' = "located"
    /\ UNCHANGED <<container, product_data, listingVars, normVars>>

\* the product_data dictionary is built
BuildRecord ==
    /\ rpc = "located"
    /\ product_data' = BuildProductData(container, elems, clock)
    /\ rpc' = "built"
    /\ UNCHANGED <<container, elems, listingVars, normVars>>

\* the discount calculation, and the return
CalculateDiscount ==
    /\ rpc = "built"
    /\ product_data' = DeriveDiscount(product_data)
    /\ rpc' = "done"
    /\ UNCHANGED <<container, elems, listingVars, normVars>>

NextRecord == LocateElements \/ BuildRecord \/ CalculateDiscount

SpecRecord == InitRecord /\ [][NextRecord]_vars

-----------------------------------------------------------------------------
(* One call of extract_discount, one call of determine_availability. *)

InitDiscount ==
    /\ ListingIdle /\ RecordIdle
    /\ fpc = "call" /\ text \in DiscountTexts /\ element = None /\ ret = None

ExtractDiscount ==
    /\ fpc = "call"
    /\ ret' = extract_discount(text)
    /\ fpc' = "done"
    /\ UNCHANGED <<text, element, listingVars, recordVars>>

NextDiscount == ExtractDiscount

SpecDiscount == InitDiscount /\ [][NextDiscount]_vars

InitAvailability ==
    /\ ListingIdle /\ RecordIdle
    /\ fpc = "call" /\ text \in AvailabilityTexts /\ element \in AvailabilityElements /\ ret = None

DetermineAvailability ==
    /\ fpc = "call"
    /\ ret' = determine_availability(element, text)
    /\ fpc' = "done"
    /\ UNCHANGED <<text, element, listingVars, recordVars>>

NextAvailability == DetermineAvailability

SpecAvailability == InitAvailability /\ [][NextAvailability]_vars

-----------------------------------------------------------------------------
(* Properties of the listing loop. *)

\* a record, or a list of records, with the timestamp left out
Untimed(r) == [c \in DOMAIN r \ {"scrape_timestamp_utc"} |-> r[c]]
UntimedAll(rs) == [i \in 1..Len(rs) |-> Untimed(rs[i])]

\* the records, in order, of the containers of cs that extract without
\* raising and yield a product name
RECURSIVE NamedRecords(_, _)
NamedRecords(cs, u) ==
    IF cs = <<>> THEN <<>>
    ELSE IF ~Raises(Head(cs)) /\ safe_get_text(Node(Head(cs), find_element_by_patterns(Head(cs), name_patterns).element)) # <<>>
    THEN <<Untimed(WithSource(extract_product_data(Head(cs), 0), u))>> \o NamedRecords(Tail(cs), u)
    ELSE NamedRecords(Tail(cs), u)

NameOnly(r) ==
    /\ r.product_name # None
    /\ r.current_price = None /\ r.mrp = None /\ r.discount = None /\ r.rating = None
    /\ r.availability = "Unknown"

C2_RaiseSkipped ==
    [][ /\ pc' # "raised"
        /\ (pc = "loop" /\ idx' # idx) => (idx <= Len(containers) /\ idx' = idx + 1 /\ pc' = "loop")
        /\ (pc = "loop" /\ idx' # idx /\ Raises(containers[idx])) =>
              (products' = products /\ warned' = Append(warned, idx) /\ containers' = containers)
        /\ (pc = "loop" /\ pc' = "returned") => (idx = Len(containers) + 1 /\ result' = products) ]_vars

\* the first container raised, the second was extracted and surfaced
C2_Witness ==
    /\ pc = "returned"
    /\ Len(containers) = 2
    /\ Raises(containers[1])
    /\ warned = <<1>>
    /\ Len(result) = 1

\* the container patterns that match some tag of the document
HitPatterns(doc) ==
    LET all == Descendants(doc)
    IN  {k \in 1..Len(container_patterns) : \E i \in 1..Len(all) : Matches(all[i], container_patterns[k])}
Lowest(S) == CHOOSE k \in S : \A j \in S : k <= j

\* C3: the containers are the full match set of the lowest-indexed container
\* pattern that matches anything; tags that only a later pattern matches are
\* left out; no pattern after that one is evaluated; the list is empty exactly
\* when no pattern matches any tag.
C3_FirstPatternWins ==
    (pc \in {"loop", "returned", "dataframe"} /\ soup # None) =>
        LET doc == Val(soup)
            all == Descendants(doc)
            hits == HitPatterns(doc)
            first == container_patterns[Lowest(hits)]
            evaluated == find_product_containers(doc).evaluated
        IN  /\ (containers = <<>>) <=> (hits = {})
            /\ hits = {} => evaluated = Len(container_patterns)
            /\ hits # {} =>
                  /\ containers = find_all(doc, first)
                  /\ evaluated = Lowest(hits)
                  /\ \A i \in 1..Len(all) : (all[i] \in Range(containers)) <=> Matches(all[i], first)

\* the document has tags for the first pattern and tags for a later one only;
\* the single tag of the first pattern is the whole result
C3_Witness ==
    /\ pc = "loop"
    /\ soup # None
    /\ Len(containers) = 1
    /\ LET doc == Val(soup)
           all == Descendants(doc)
           hits == HitPatterns(doc)
       IN  /\ Lowest(hits) = 1
           /\ \E k \in hits : k > 2 /\ \E i \in 1..Len(all) :
                 Matches(all[i], container_patterns[k]) /\ ~Matches(all[i], container_patterns[1])

\* C9: when the page cannot be fetched or no container pattern matches,
\* scrape_listing_page returns the empty list without raising and without
\* extracting anything, and the DataFrame of scrape_to_dataframe has no row
\* and the same eight columns, in the same order, as a DataFrame with rows.
C9_EmptyResult ==
    /\ pc # "raised"
    /\ (pc \in {"returned", "dataframe"} /\ (soup = None \/ HitPatterns(Val(soup)) = {})) =>
          /\ result = <<>>
          /\ idx <= 1
          /\ pc = "dataframe" => Val(df).rows = <<>>
    /\ pc = "dataframe" =>
          /\ Val(df).columns = << "product_name", "current_price", "mrp", "discount",
                                  "rating", "availability", "scrape_timestamp_utc", "source_url" >>
          /\ Len(Val(df).rows) = Len(result)
          /\ \A i \in 1..Len(result) : DOMAIN Val(df).rows[i] = Range(Val(df).columns)

\* a document was fetched, it has tags, none is a container, and the
\* DataFrame is empty
C9_Witness ==
    /\ pc = "dataframe"
    /\ soup # None
    /\ Val(soup) # <<>>
    /\ containers = <<>>
    /\ Val(df).rows = <<>>

-----------------------------------------------------------------------------
(* Properties of extract_product_data. *)

OtherFields == {"product_name", "current_price", "mrp", "rating", "availability", "scrape_timestamp_utc"}

\* C4: when no discount was extracted, both prices are present and
\* mrp > current_price, the discount of the record is the percentage
\* (mrp - current_price) / mrp * 100 to one decimal with "%"; otherwise a
\* missing discount stays None.
C4_DerivedDiscount ==
    [][ (rpc = "built" /\ rpc' = "done" /\ product_data.discount = None) =>
            IF /\ IsSome(product_data.mrp)
               /\ IsSome(product_data.current_price)
               /\ Greater(Val(product_data.mrp), Val(product_data.current_price))
            THEN product_data'.discount = Some(FormatPct(DiscountTenths(Val(product_data.mrp), Val(product_data.current_price))))
            ELSE product_data'.discount = None ]_vars

\* C5: the discount calculation leaves an extracted discount as it is,
\* whatever mrp and current_price are, and changes no other field.
C5_ExtractedDiscountKept ==
    [][ (rpc = "built" /\ rpc' = "done") =>
            /\ product_data.discount # None => product_data'.discount = product_data.discount
            /\ \A f \in OtherFields : product_data'[f] = product_data[f] ]_vars

\* a discount was extracted from a container whose prices would give another
C5_Witness ==
    /\ rpc = "done"
    /\ product_data.discount = Some(<<"1","5","%">>)
    /\ elems["discount"].element # 0
    /\ IsSome(product_data.mrp) /\ IsSome(product_data.current_price)
    /\ Greater(Val(product_data.mrp), Val(product_data.current_price))
    /\ DiscountTenths(Val(product_data.mrp), Val(product_data.current_price)) = 200

\* the patterns of ps that match some descendant of container c
Hits(c, ps) == {k \in 1..Len(ps) : \E i \in 1..Len(c.kids) : Matches(c.kids[i], ps[k])}

\* C8: for each field, the element located is the first descendant matched by
\* the lowest-indexed pattern that matches any descendant, whatever its text;
\* the patterns after that one are not evaluated; the element is None exactly
\* when no pattern of the list matches.
C8_FirstPatternElement ==
    rpc \in {"located", "built", "done"} =>
        \A f \in Fields :
            LET ps == PatternsOf(f)
                hits == Hits(container, ps)
                k0 == CHOOSE k \in hits : \A j \in hits : k <= j
            IN  /\ (elems[f].element = 0) <=> (hits = {})
                /\ hits = {} => elems[f].evaluated = Len(ps)
                /\ hits # {} =>
                      /\ elems[f].evaluated = k0
                      /\ Matches(container.kids[elems[f].element], ps[k0])
                      /\ \A i \in 1..(elems[f].element - 1) : ~Matches(container.kids[i], ps[k0])

\* the <h2> found by the first name pattern is empty, a tag of a later name
\* pattern has text, and the empty <h2> is the one located
C8_Witness ==
    /\ rpc = "done"
    /\ elems["name"].element # 0
    /\ elems["name"].evaluated = 1
    /\ get_text(container.kids[elems["name"].element]) = <<>>
    /\ \E i \in 1..Len(container.kids) :
          Matches(container.kids[i], name_patterns[3]) /\ get_text(container.kids[i]) # <<>>
    /\ product_data.product_name = None

-----------------------------------------------------------------------------
(* Properties of the field normalizers. *)

\* a number immediately before a "%" starts at i
ImmediatePercentAt(s, i) ==
    /\ IsDigit(s[i])
    /\ PercentGroupEnd(s, i) <= Len(s)
    /\ s[PercentGroupEnd(s, i)] = "%"
\* a run of digits and commas with a digit in it starts at i
NumberAt(s, i) ==
    /\ AmountAt(s, i)
    /\ i = 1 \/ ~AmountAt(s, i - 1)
    /\ \E j \in i..(AmountRunEnd(s, i) - 1) : IsDigit(s[j])
FirstImmediatePercent(s) == CHOOSE i \in 1..Len(s) : ImmediatePercentAt(s, i) /\ \A j \in 1..(i - 1) : ~ImmediatePercentAt(s, j)
FirstNumber(s) == CHOOSE i \in 1..Len(s) : NumberAt(s, i) /\ \A j \in 1..(i - 1) : ~NumberAt(s, j)

\* C6: (1) a number immediately followed by "%" gives that number and "%";
\* (2) otherwise a numeric substring gives the rupee sign and the number
\* without its commas; (3) otherwise, the text holding no number at all, the
\* result is the trimmed text, or None when that is empty.
C6_DiscountPrecedence ==
    fpc = "done" =>
        IF \E i \in 1..Len(text) : ImmediatePercentAt(text, i)
        THEN ret = Some(SubSeq(text, FirstImmediatePercent(text), PercentGroupEnd(text, FirstImmediatePercent(text)) - 1) \o <<"%">>)
        ELSE IF \E i \in 1..Len(text) : NumberAt(text, i)
        THEN ret = Some(<<"₹">> \o SelectSeq(AmountGroup(text, FirstNumber(text)), NotComma))
        ELSE ret = OrNone(strip(text))

\* whether a phrase of the list occurs in the text searched
Occurs(patterns, s) == \E k \in 1..Len(patterns) : Contains(s, patterns[k])

\* C7: the result is one of the three literals; an out-of-stock phrase in the
\* lowercase text-plus-element search space gives "Out of Stock" whatever else
\* occurs; "In Stock" is the result exactly when no out-of-stock phrase and
\* some in-stock phrase occurs; "Unknown" exactly when neither list matches,
\* which includes text and element both absent.
C7_AvailabilityPrecedence ==
    fpc = "done" =>
        LET s == SearchText(element, text)
        IN  /\ ret \in {"In Stock", "Out of Stock", "Unknown"}
            /\ Occurs(out_of_stock_patterns, s) => ret = "Out of Stock"
            /\ (ret = "In Stock") <=> (~Occurs(out_of_stock_patterns, s) /\ Occurs(in_stock_patterns, s))
            /\ (ret = "Unknown") <=> (~Occurs(out_of_stock_patterns, s) /\ ~Occurs(in_stock_patterns, s))
            /\ (text = <<>> /\ element = None) => ret = "Unknown"

\* the text holds an in-stock phrase and an out-of-stock phrase
C7_Witness ==
    /\ fpc = "done"
    /\ Contains(lower(text), <<"i","n"," ","s","t","o","c","k">>)
    /\ Contains(lower(text), <<"o","u","t"," ","o","f"," ","s","t","o","c","k">>)
    /\ Occurs(in_stock_patterns, SearchText(element, text))
    /\ ret = "Out of Stock"

=============================================================================
